---- MODULE Spec2Model ----
(***************************************************************************)
(* A model of the BitSet of src/bitset.go.                                 *)
(*                                                                         *)
(* A uint64 word is modelled as the set of its 1-bit positions, a subset   *)
(* of 0..63: w & m is intersection, w | m union, w ^ m symmetric           *)
(* difference, w &^ m set difference, ^w the complement in 0..63, w >> s   *)
(* drops the positions below s and lowers the others by s, and 1 << k is   *)
(* {k}.  A Go slice of words is a sequence; slice index x is sequence      *)
(* index x + 1.  A nil slice is the empty sequence with nilset = TRUE.     *)
(*                                                                         *)
(* uint indexes of the model stay far below 2^64 - 64, so i + 1 does not   *)
(* wrap and the saturating branch of wordsNeeded is not taken; the only    *)
(* exception is the section on indexes at the top of uint, where an index  *)
(* is the signed residue of the uint modulo 2^64 (Cap() is -1).            *)
(***************************************************************************)
EXTENDS Integers, Sequences, FiniteSets, TLC

\* ------------------------------------------------------------------ bounds
\* highest word index that Set, Clear, SetTo and Flip address
MaxWord == 1

\* --------------------------------------------------------------- constants
wordSize == 64
log2WordSize == 6
allBits == 0 .. (wordSize - 1)

\* ---------------------------------------------------------------- word ops
Min(S) == CHOOSE p \in S : \A q \in S : p <= q
Max2(x, y) == IF x >= y THEN x ELSE y
Min2(x, y) == IF x <= y THEN x ELSE y

\* w >> s on a uint64
Shr(w, s) == {p - s : p \in {q \in w : q >= s}}
\* 1 << (i & (wordSize - 1))
bitMask(i) == {i % wordSize}
\* i >> log2WordSize
wordIndex(i) == i \div wordSize
And(w, m) == w \cap m
Or(w, m) == w \cup m
Xor(w, m) == (w \ m) \cup (m \ w)
AndNot(w, m) == w \ m
Not(w) == allBits \ w

\* index of the lowest 1 bit; the de Bruijn lookup yields deBruijn[0] = 0 for 0
trailingZeroes64(v) == IF v = {} THEN 0 ELSE Min(v)

\* make([]uint64, n)
make(n) == [k \in 1 .. n |-> {}]

\* ------------------------------------------------------------------ BitSet
wordsNeeded(i) == (i + (wordSize - 1)) \div wordSize

\* the zero value of BitSet: length 0, nil set
ZeroValue == [length |-> 0, set |-> << >>, nilset |-> TRUE]

\* a nil *BitSet; dereferencing it is never reached, its fields are those of
\* no vector at all
Null == [length |-> 0, set |-> << >>, nilset |-> TRUE, null |-> TRUE]

New(length) == [length |-> length, set |-> make(wordsNeeded(length)), nilset |-> FALSE]

\* extendSetMaybe with the words of the old set not copied into the new one
extendSetMaybe_noCopy(b, i) ==
  IF i >= b.length
  THEN LET nsize == wordsNeeded(i + 1)
       IN  [length |-> i + 1,
            set |-> IF b.nilset \/ Len(b.set) < nsize THEN make(nsize) ELSE b.set,
            nilset |-> FALSE]
  ELSE b

extendSetMaybe(b, i) ==
  IF i >= b.length
  THEN LET nsize == wordsNeeded(i + 1)
           newset == [k \in 1 .. nsize |-> IF k <= Len(b.set) THEN b.set[k] ELSE {}]
       IN  [length |-> i + 1,
            set |-> IF b.nilset THEN make(nsize)
                    ELSE IF Len(b.set) < nsize THEN newset
                    ELSE b.set,
            nilset |-> FALSE]
  ELSE b

\* the index expression b.set[x] is in range
InRange(s, x) == 0 <= x /\ x < Len(s)

\* Test panics (index out of range) when the word of an in-length bit is missing
TestPanics(b, i) == i < b.length /\ ~InRange(b.set, wordIndex(i))

Test(b, i) ==
  IF i >= b.length THEN FALSE
  ELSE IF ~InRange(b.set, wordIndex(i)) THEN FALSE
  ELSE And(b.set[wordIndex(i) + 1], bitMask(i)) # {}

\* the outcome of a call: the receiver after it, and whether it returned
\* (ok) or panicked
Outcome(b, ok) == [b |-> b, ok |-> ok]

\* Set that assigns the mask to the word (= in place of |=)
Set_assign(b, i) ==
  LET e == extendSetMaybe(b, i)
      x == wordIndex(i)
  IN  IF InRange(e.set, x)
      THEN Outcome([e EXCEPT !.set[x + 1] = bitMask(i)], TRUE)
      ELSE Outcome(e, FALSE)

Set(b, i) ==
  LET e == extendSetMaybe(b, i)
      x == wordIndex(i)
  IN  IF InRange(e.set, x)
      THEN Outcome([e EXCEPT !.set[x + 1] = Or(@, bitMask(i))], TRUE)
      ELSE Outcome(e, FALSE)

\* Clear without the i >= b.length return
Clear_noGuard(b, i) ==
  LET x == wordIndex(i)
  IN  IF InRange(b.set, x)
      THEN Outcome([b EXCEPT !.set[x + 1] = AndNot(@, bitMask(i))], TRUE)
      ELSE Outcome(b, FALSE)

Clear(b, i) ==
  IF i >= b.length THEN Outcome(b, TRUE)
  ELSE LET x == wordIndex(i)
       IN  IF InRange(b.set, x)
           THEN Outcome([b EXCEPT !.set[x + 1] = AndNot(@, bitMask(i))], TRUE)
           ELSE Outcome(b, FALSE)

SetTo(b, i, value) == IF value THEN Set(b, i) ELSE Clear(b, i)

\* Flip without the i >= b.length dispatch to Set
Flip_noGrow(b, i) ==
  LET x == wordIndex(i)
  IN  IF InRange(b.set, x)
      THEN Outcome([b EXCEPT !.set[x + 1] = Xor(@, bitMask(i))], TRUE)
      ELSE Outcome(b, FALSE)

Flip(b, i) ==
  IF i >= b.length THEN Set(b, i)
  ELSE LET x == wordIndex(i)
       IN  IF InRange(b.set, x)
           THEN Outcome([b EXCEPT !.set[x + 1] = Xor(@, bitMask(i))], TRUE)
           ELSE Outcome(b, FALSE)

\* ClearAll that gives the words up and resets the length
ClearAll_release(b) == [b EXCEPT !.length = 0, !.set = << >>]

ClearAll(b) ==
  IF ~b.nilset THEN [b EXCEPT !.set = [k \in 1 .. Len(b.set) |-> {}]] ELSE b

wordCount(b) == wordsNeeded(b.length)

\* copy(dst, src): the first min(len(dst), len(src)) words
copy(dst, src) ==
  [k \in 1 .. Len(dst) |-> IF k <= Len(src) THEN src[k] ELSE dst[k]]

Clone(b) ==
  LET c == New(b.length)
  IN  IF ~b.nilset THEN [c EXCEPT !.set = copy(c.set, b.set)] ELSE c

\* b.Copy(c): the destination c after the call and the count returned
Copy(b, c) ==
  IF c = Null THEN [c |-> c, count |-> 0]
  ELSE [c |-> IF ~b.nilset THEN [c EXCEPT !.set = copy(c.set, b.set)] ELSE c,
        count |-> IF b.length < c.length THEN b.length ELSE c.length]

\* --------------------------------------------------------------- navigation
\* the loop of NextClear over the words from x on
RECURSIVE scanClear(_, _)
scanClear(s, x) ==
  IF x >= Len(s) THEN [n |-> 0, found |-> FALSE]
  ELSE IF s[x + 1] # allBits
       THEN [n |-> x * wordSize + trailingZeroes64(Not(s[x + 1])), found |-> TRUE]
       ELSE scanClear(s, x + 1)

NextClear(b, i) ==
  LET x == wordIndex(i)
  IN  IF x >= Len(b.set) THEN [n |-> 0, found |-> FALSE]
      ELSE LET w == Shr(b.set[x + 1], i % wordSize)
               wA == Shr(allBits, i % wordSize)
           IN  IF w # wA
               THEN [n |-> i + trailingZeroes64(Not(w)), found |-> TRUE]
               ELSE scanClear(b.set, x + 1)

\* the loop of NextSet over the words from x on
RECURSIVE scanSet(_, _)
scanSet(s, x) ==
  IF x >= Len(s) THEN [n |-> 0, found |-> FALSE]
  ELSE IF s[x + 1] # {}
       THEN [n |-> x * wordSize + trailingZeroes64(s[x + 1]), found |-> TRUE]
       ELSE scanSet(s, x + 1)

\* NextSet with the first word not shifted down by the offset of i
NextSet_noShift(b, i) ==
  LET x == wordIndex(i)
  IN  IF x >= Len(b.set) THEN [n |-> 0, found |-> FALSE]
      ELSE LET w == b.set[x + 1]
           IN  IF w # {}
               THEN [n |-> i + trailingZeroes64(w), found |-> TRUE]
               ELSE scanSet(b.set, x + 1)

NextSet(b, i) ==
  LET x == wordIndex(i)
  IN  IF x >= Len(b.set) THEN [n |-> 0, found |-> FALSE]
      ELSE LET w == Shr(b.set[x + 1], i % wordSize)
           IN  IF w # {}
               THEN [n |-> i + trailingZeroes64(w), found |-> TRUE]
               ELSE scanSet(b.set, x + 1)

\* ------------------------------------------------------------------- counts
\* bits.OnesCount64
OnesCount64(x) == Cardinality(x)

\* a popcnt result: the count, and whether the call returned or panicked
Counted(n, ok) == [n |-> n, ok |-> ok]

\* the word expression a loop computes from the words w and m
wordOp(f, w, m) ==
  CASE f = "w" -> w
    [] f = "m" -> m
    [] f = "0" -> {}
    [] f = "^w" -> Not(w)
    [] f = "&" -> And(w, m)
    [] f = "|" -> Or(w, m)
    [] f = "^" -> Xor(w, m)
    [] f = "&^" -> AndNot(w, m)

RECURSIVE sumWords(_, _, _)
\* cnt += OnesCount64(s[i] f m[i]) for i in range s
sumWords(f, s, m) ==
  IF s = << >> THEN 0
  ELSE OnesCount64(wordOp(f, Head(s), Head(m))) + sumWords(f, Tail(s), Tail(m))

\* popcntSlice that leaves out the last word
popcntSlice_short(s) ==
  IF s = << >> THEN 0 ELSE sumWords("w", SubSeq(s, 1, Len(s) - 1), SubSeq(s, 1, Len(s) - 1))

popcntSlice(s) == sumWords("w", s, s)

\* _ = m[len(s)-1] panics unless 0 <= len(s)-1 < len(m)
bce(s, m) == InRange(m, Len(s) - 1)

popcntMaskSlice(s, m) ==
  IF bce(s, m) THEN Counted(sumWords("&^", s, m), TRUE) ELSE Counted(0, FALSE)

popcntAndSlice(s, m) ==
  IF bce(s, m) THEN Counted(sumWords("&", s, m), TRUE) ELSE Counted(0, FALSE)

popcntOrSlice(s, m) ==
  IF bce(s, m) THEN Counted(sumWords("|", s, m), TRUE) ELSE Counted(0, FALSE)

popcntXorSlice(s, m) ==
  IF bce(s, m) THEN Counted(sumWords("^", s, m), TRUE) ELSE Counted(0, FALSE)

Count(b) == IF ~b.nilset THEN popcntSlice(b.set) ELSE 0

\* -------------------------------------------------------------- set algebra
\* panicIfNull that lets every pointer pass
panicIfNull_never(b) == FALSE

\* TRUE when panicIfNull(b) panics
panicIfNull(b) == b = Null

\* the panic of panicIfNull: nothing is returned, the receiver is as it was
NullPanic(b) ==
  [b |-> b, result |-> Null, n |-> 0, ok |-> FALSE, panic |-> "BitSetError"]

\* a returned vector, and whether the call returned or panicked
Returned(result, ok) == [result |-> result, ok |-> ok]

\* dst[i] = x[i] f y[i] for the slice indexes from..to-1, up to the first
\* index that is out of range in dst, x or y
combine(f, dst, x, y, from, to) ==
  [k \in 1 .. Len(dst) |->
     IF from < k /\ k <= to /\ k <= Len(x) /\ k <= Len(y) THEN wordOp(f, x[k], y[k]) ELSE dst[k]]

\* no index of that loop is out of range
combineOk(dst, x, y, from, to) ==
  from >= to \/ (to <= Len(dst) /\ to <= Len(x) /\ to <= Len(y))

\* Difference that keeps the common bits (& in place of &^)
Difference_and(b, compare) ==
  LET result == Clone(b)
      l == Min2(wordCount(compare), wordCount(b))
  IN  Returned([result EXCEPT !.set = combine("&", result.set, b.set, compare.set, 0, l)],
               combineOk(result.set, b.set, compare.set, 0, l))

Difference(b, compare) ==
  IF panicIfNull(b) \/ panicIfNull(compare) THEN NullPanic(b) ELSE
  LET result == Clone(b)
      l == Min2(wordCount(compare), wordCount(b))
  IN  Returned([result EXCEPT !.set = combine("&^", result.set, b.set, compare.set, 0, l)],
               combineOk(result.set, b.set, compare.set, 0, l))

\* b.set[:l] and b.set[l:] panic unless l <= len(b.set)
DifferenceCardinality(b, compare) ==
  IF panicIfNull(b) \/ panicIfNull(compare) THEN NullPanic(b) ELSE
  LET l == Min2(wordCount(compare), wordCount(b))
  IN  IF l > Len(b.set) \/ l > Len(compare.set) THEN Counted(0, FALSE)
      ELSE LET c == popcntMaskSlice(SubSeq(b.set, 1, l), SubSeq(compare.set, 1, l))
           IN  IF c.ok
               THEN Counted(c.n + popcntSlice(SubSeq(b.set, l + 1, Len(b.set))), TRUE)
               ELSE c

InPlaceDifference(b, compare) ==
  IF panicIfNull(b) \/ panicIfNull(compare) THEN NullPanic(b) ELSE
  LET l == Min2(wordCount(compare), wordCount(b))
  IN  Outcome([b EXCEPT !.set = combine("&^", b.set, b.set, compare.set, 0, l)],
              combineOk(b.set, b.set, compare.set, 0, l))

\* sortByLength that returns its arguments in the order given
sortByLength_noSwap(a, b) == <<a, b>>

sortByLength(a, b) == IF a.length <= b.length THEN <<a, b>> ELSE <<b, a>>

Intersection(b, compare) ==
  IF panicIfNull(b) \/ panicIfNull(compare) THEN NullPanic(b) ELSE
  LET s == sortByLength(b, compare)
      result == New(s[1].length)
      n == Len(s[1].set)
  IN  Returned([result EXCEPT !.set = combine("&", result.set, s[1].set, s[2].set, 0, n)],
               combineOk(result.set, s[1].set, s[2].set, 0, n))

IntersectionCardinality(b, compare) ==
  IF panicIfNull(b) \/ panicIfNull(compare) THEN NullPanic(b) ELSE
  LET s == sortByLength(b, compare)
  IN  popcntAndSlice(s[1].set, s[2].set)

\* InPlaceIntersection without the loop that zeroes the words from l on
InPlaceIntersection_noZero(b, compare) ==
  LET l == Min2(wordCount(compare), wordCount(b))
      anded == [b EXCEPT !.set = combine("&", b.set, b.set, compare.set, 0, l)]
  IN  IF ~combineOk(b.set, b.set, compare.set, 0, l) THEN Outcome(anded, FALSE)
      ELSE IF compare.length > 0
           THEN Outcome(extendSetMaybe(anded, compare.length - 1), TRUE)
           ELSE Outcome(anded, TRUE)

InPlaceIntersection(b, compare) ==
  IF panicIfNull(b) \/ panicIfNull(compare) THEN NullPanic(b) ELSE
  LET l == Min2(wordCount(compare), wordCount(b))
      anded == [b EXCEPT !.set = combine("&", b.set, b.set, compare.set, 0, l)]
      ok == combineOk(b.set, b.set, compare.set, 0, l)
      zeroed == [anded EXCEPT !.set = combine("0", anded.set, anded.set, anded.set, l, Len(anded.set))]
  IN  IF ~ok THEN Outcome(anded, FALSE)
      ELSE IF compare.length > 0
           THEN Outcome(extendSetMaybe(zeroed, compare.length - 1), TRUE)
           ELSE Outcome(zeroed, TRUE)

Union(b, compare) ==
  IF panicIfNull(b) \/ panicIfNull(compare) THEN NullPanic(b) ELSE
  LET s == sortByLength(b, compare)
      result == Clone(s[2])
      n == Len(s[1].set)
  IN  Returned([result EXCEPT !.set = combine("|", result.set, s[1].set, s[2].set, 0, n)],
               combineOk(result.set, s[1].set, s[2].set, 0, n))

UnionCardinality(b, compare) ==
  IF panicIfNull(b) \/ panicIfNull(compare) THEN NullPanic(b) ELSE
  LET s == sortByLength(b, compare)
      c == popcntOrSlice(s[1].set, s[2].set)
  IN  IF c.ok /\ Len(s[2].set) > Len(s[1].set)
      THEN Counted(c.n + popcntSlice(SubSeq(s[2].set, Len(s[1].set) + 1, Len(s[2].set))), TRUE)
      ELSE c

InPlaceUnion(b, compare) ==
  IF panicIfNull(b) \/ panicIfNull(compare) THEN NullPanic(b) ELSE
  LET l == Min2(wordCount(compare), wordCount(b))
      e == IF compare.length > 0 THEN extendSetMaybe(b, compare.length - 1) ELSE b
      ored == [e EXCEPT !.set = combine("|", e.set, e.set, compare.set, 0, l)]
      ok == combineOk(e.set, e.set, compare.set, 0, l)
      n == Len(compare.set)
  IN  IF ~ok THEN Outcome(ored, FALSE)
      ELSE IF n > l
           THEN Outcome([ored EXCEPT !.set = combine("m", ored.set, ored.set, compare.set, l, n)],
                        combineOk(ored.set, ored.set, compare.set, l, n))
           ELSE Outcome(ored, TRUE)

SymmetricDifference(b, compare) ==
  IF panicIfNull(b) \/ panicIfNull(compare) THEN NullPanic(b) ELSE
  LET s == sortByLength(b, compare)
      result == Clone(s[2])
      n == Len(s[1].set)
  IN  Returned([result EXCEPT !.set = combine("^", result.set, s[1].set, s[2].set, 0, n)],
               combineOk(result.set, s[1].set, s[2].set, 0, n))

SymmetricDifferenceCardinality(b, compare) ==
  IF panicIfNull(b) \/ panicIfNull(compare) THEN NullPanic(b) ELSE
  LET s == sortByLength(b, compare)
      c == popcntXorSlice(s[1].set, s[2].set)
  IN  IF c.ok /\ Len(s[2].set) > Len(s[1].set)
      THEN Counted(c.n + popcntSlice(SubSeq(s[2].set, Len(s[1].set) + 1, Len(s[2].set))), TRUE)
      ELSE c

InPlaceSymmetricDifference(b, compare) ==
  IF panicIfNull(b) \/ panicIfNull(compare) THEN NullPanic(b) ELSE
  LET l == Min2(wordCount(compare), wordCount(b))
      e == IF compare.length > 0 THEN extendSetMaybe(b, compare.length - 1) ELSE b
      xored == [e EXCEPT !.set = combine("^", e.set, e.set, compare.set, 0, l)]
      ok == combineOk(e.set, e.set, compare.set, 0, l)
      n == Len(compare.set)
  IN  IF ~ok THEN Outcome(xored, FALSE)
      ELSE IF n > l
           THEN Outcome([xored EXCEPT !.set = combine("m", xored.set, xored.set, compare.set, l, n)],
                        combineOk(xored.set, xored.set, compare.set, l, n))
           ELSE Outcome(xored, TRUE)

isEven(b) == b.length % wordSize = 0

\* cleanLastWord that masks nothing
cleanLastWord_noMask(b) == Outcome(b, TRUE)

cleanLastWord(b) ==
  IF ~isEven(b)
  THEN LET x == wordsNeeded(b.length) - 1
       IN  IF InRange(b.set, x)
           THEN Outcome([b EXCEPT !.set[x + 1] =
                           And(@, Shr(allBits, wordSize - (b.length % wordSize)))], TRUE)
           ELSE Outcome(b, FALSE)
  ELSE Outcome(b, TRUE)

\* Complement that stores the words as they are (word in place of ^word)
Complement_noNot(b) ==
  LET result == New(b.length)
      n == Len(b.set)
      copied == [result EXCEPT !.set = combine("w", result.set, b.set, b.set, 0, n)]
      cleaned == cleanLastWord(copied)
  IN  IF combineOk(result.set, b.set, b.set, 0, n)
      THEN Returned(cleaned.b, cleaned.ok)
      ELSE Returned(copied, FALSE)

Complement(b) ==
  LET result == New(b.length)
      n == Len(b.set)
      flipped == [result EXCEPT !.set = combine("^w", result.set, b.set, b.set, 0, n)]
      cleaned == cleanLastWord(flipped)
  IN  IF combineOk(result.set, b.set, b.set, 0, n)
      THEN Returned(cleaned.b, cleaned.ok)
      ELSE Returned(flipped, FALSE)

\* ------------------------------------------------------------------- Equal
\* b.Equal(c) indexes c.set by the word indexes of b.set
EqualPanics(b, c) ==
  /\ b.length = c.length
  /\ b.length # 0
  /\ \E p \in 1 .. Len(b.set) : ~InRange(c.set, p - 1)

Equal(b, c) ==
  IF b.length # c.length THEN FALSE
  ELSE IF b.length = 0 THEN TRUE
  ELSE \A p \in 1 .. Len(b.set) : InRange(c.set, p - 1) /\ c.set[p] = b.set[p]

\* ------------------------------------------------------------------- codec
\* A byte is a number in 0 .. 255, a stream a sequence of bytes.
bit(w, p) == IF p \in w THEN 1 ELSE 0

\* byte k of the word w, byte 0 the least significant
byteOf(w, k) ==
  bit(w, 8 * k) + 2 * bit(w, 8 * k + 1) + 4 * bit(w, 8 * k + 2) + 8 * bit(w, 8 * k + 3)
  + 16 * bit(w, 8 * k + 4) + 32 * bit(w, 8 * k + 5) + 64 * bit(w, 8 * k + 6)
  + 128 * bit(w, 8 * k + 7)

\* binary.BigEndian.PutUint64: the most significant byte first
PutUint64(w) == [j \in 1 .. 8 |-> byteOf(w, 8 - j)]

\* binary.BigEndian.Uint64: the word that eight bytes hold
Uint64(bs) == {p \in allBits : (bs[8 - (p \div 8)] \div (2 ^ (p % 8))) % 2 = 1}

\* uint64(n) of a length n, and uint(w) of a word that holds a length
uint64Of(n) == {p \in 0 .. 30 : (n \div (2 ^ p)) % 2 = 1}

RECURSIVE uintOf(_)
uintOf(w) ==
  IF w = {} THEN 0 ELSE LET p == Min(w) IN (2 ^ p) + uintOf(w \ {p})

\* putWords writing the words from the last to the first
putWords_reversed(s) ==
  [k \in 1 .. (8 * Len(s)) |-> PutUint64(s[Len(s) - ((k - 1) \div 8)])[((k - 1) % 8) + 1]]

\* binary.Write of a []uint64: the words in index order, eight bytes each
putWords(s) == [k \in 1 .. (8 * Len(s)) |-> PutUint64(s[((k - 1) \div 8) + 1])[((k - 1) % 8) + 1]]

\* the words that 8 * n bytes hold
getWords(data, n) == [k \in 1 .. n |-> Uint64(SubSeq(data, 8 * (k - 1) + 1, 8 * k))]

\* BinaryStorageSize without the length field
BinaryStorageSize_wordsOnly(b) == 8 * Len(b.set)

BinaryStorageSize(b) == 8 + 8 * Len(b.set)

\* b.WriteTo(stream) on a bytes.Buffer, whose Write never fails
WriteTo(b, stream) ==
  LET length == uint64Of(b.length)
  IN  [stream |-> [stream EXCEPT !.buf = @ \o PutUint64(length) \o putWords(b.set)],
       n |-> BinaryStorageSize(b),
       err |-> "nil"]

\* the io.ReadFull that binary.Read does for n bytes: EOF when the stream had
\* no byte left, ErrUnexpectedEOF when it ended after some of them
ReadFull(s, n) ==
  LET avail == Len(s.buf) - s.off
      got == Min2(n, avail)
  IN  [data |-> SubSeq(s.buf, s.off + 1, s.off + got),
       stream |-> [s EXCEPT !.off = @ + got],
       err |-> IF got = n THEN "nil" ELSE IF got = 0 THEN "EOF" ELSE "ErrUnexpectedEOF"]

\* ReadFrom that gives the receiver the new length and zeroed words before it
\* reads the words
ReadFrom_assignFirst(b, stream) ==
  LET r1 == ReadFull(stream, 8)
      length == Uint64(r1.data)
      newset == New(uintOf(length))
      r2 == ReadFull(r1.stream, 8 * Len(newset.set))
      read == [newset EXCEPT !.set = getWords(r2.data, Len(newset.set))]
  IN  IF r1.err # "nil" THEN [b |-> b, n |-> 0, err |-> r1.err, stream |-> r1.stream]
      ELSE IF r2.err # "nil" THEN [b |-> newset, n |-> 0, err |-> r2.err, stream |-> r2.stream]
      ELSE [b |-> read, n |-> BinaryStorageSize(read), err |-> "nil", stream |-> r2.stream]

\* b.ReadFrom(stream): the receiver after the call, the count and the error
\* returned, and the stream with what was consumed
ReadFrom(b, stream) ==
  LET r1 == ReadFull(stream, 8)
      length == Uint64(r1.data)
      newset == New(uintOf(length))
      r2 == ReadFull(r1.stream, 8 * Len(newset.set))
      read == [newset EXCEPT !.set = getWords(r2.data, Len(newset.set))]
  IN  IF r1.err # "nil" THEN [b |-> b, n |-> 0, err |-> r1.err, stream |-> r1.stream]
      ELSE IF uint64Of(newset.length) # length
        THEN [b |-> b, n |-> 0, err |-> "type mismatch", stream |-> r1.stream]
      ELSE IF r2.err # "nil" THEN [b |-> b, n |-> 0, err |-> r2.err, stream |-> r2.stream]
      ELSE [b |-> read, n |-> BinaryStorageSize(read), err |-> "nil", stream |-> r2.stream]

\* --------------------------------------------------------------- JSON codec
\* Characters are their ASCII codes.
\* the URL-safe base64 alphabet: A-Z a-z 0-9 - _
encodeURL(x) ==
  IF x < 26 THEN 65 + x
  ELSE IF x < 52 THEN 97 + (x - 26)
  ELSE IF x < 62 THEN 48 + (x - 52)
  ELSE IF x = 62 THEN 45
  ELSE 95

\* the six-bit value of a character of the alphabet, -1 for any other
decodeURL(ch) ==
  IF ch >= 65 /\ ch <= 90 THEN ch - 65
  ELSE IF ch >= 97 /\ ch <= 122 THEN (ch - 97) + 26
  ELSE IF ch >= 48 /\ ch <= 57 THEN (ch - 48) + 52
  ELSE IF ch = 45 THEN 62
  ELSE IF ch = 95 THEN 63
  ELSE -1

\* the padding character '='
padChar == 61

\* base64.URLEncoding.EncodeToString: three bytes give four characters, a
\* last group of one or two bytes is padded with '='
EncodeToString(src) ==
  LET n == Len(src)
      at(k) == IF k <= n THEN src[k] ELSE 0
      val(g) == at(3 * g - 2) * 65536 + at(3 * g - 1) * 256 + at(3 * g)
      char(g, x) ==
        IF 3 * (g - 1) + x > n THEN padChar
        ELSE encodeURL((val(g) \div (64 ^ (3 - x))) % 64)
  IN  [k \in 1 .. (4 * ((n + 2) \div 3)) |-> char(((k - 1) \div 4) + 1, (k - 1) % 4)]

\* base64.URLEncoding.DecodeString: the bytes, or a CorruptInputError
DecodeString(s) ==
  LET n == Len(s)
      pads == IF n >= 2 /\ s[n] = padChar /\ s[n - 1] = padChar THEN 2
              ELSE IF n >= 1 /\ s[n] = padChar THEN 1
              ELSE 0
      six(k) == IF k > n - pads THEN 0 ELSE decodeURL(s[k])
      val(g) == six(4 * g - 3) * 262144 + six(4 * g - 2) * 4096 + six(4 * g - 1) * 64 + six(4 * g)
      wellFormed ==
        /\ n % 4 = 0
        /\ \A k \in 1 .. (n - pads) : decodeURL(s[k]) >= 0
  IN  IF ~wellFormed THEN [buf |-> << >>, err |-> "CorruptInputError"]
      ELSE [buf |-> [k \in 1 .. (3 * (n \div 4) - pads) |->
                       (val(((k - 1) \div 3) + 1) \div (256 ^ (2 - ((k - 1) % 3)))) % 256],
            err |-> "nil"]

\* the quotation mark
quote == 34

\* json.Marshal of a string of base64 characters, none of which is escaped
jsonMarshal(s) == <<quote>> \o s \o <<quote>>

\* json.Unmarshal into a string, for texts without escapes and blanks
jsonUnmarshal(data) ==
  LET n == Len(data)
      inner == SubSeq(data, 2, n - 1)
      isString ==
        /\ n >= 2
        /\ data[1] = quote
        /\ data[n] = quote
        /\ \A k \in 1 .. Len(inner) : inner[k] >= 32 /\ inner[k] # quote /\ inner[k] # 92
  IN  IF isString THEN [s |-> inner, err |-> "nil"] ELSE [s |-> << >>, err |-> "SyntaxError"]

\* b.MarshalJSON(): the text and the error returned
MarshalJSON(b) ==
  LET w == WriteTo(b, [buf |-> << >>, off |-> 0])
  IN  IF w.err # "nil" THEN [data |-> << >>, err |-> w.err]
      ELSE [data |-> jsonMarshal(EncodeToString(w.stream.buf)), err |-> "nil"]

\* b.UnmarshalJSON(data): the receiver after the call and the error returned
UnmarshalJSON(b, data) ==
  LET s == jsonUnmarshal(data)
      d == DecodeString(s.s)
      r == ReadFrom(b, [buf |-> d.buf, off |-> 0])
  IN  IF s.err # "nil" THEN [b |-> b, err |-> s.err]
      ELSE IF d.err # "nil" THEN [b |-> b, err |-> d.err]
      ELSE [b |-> r.b, err |-> r.err]

\* --------------------------------------------------------- structural edit
\* InsertAt and DeleteAt follow the description of the structural edits: the
\* word that holds the position shifts only at and above the position's
\* offset, the words above it shift whole, one bit is carried between
\* neighbours.

\* w << 1 on a uint64
Shl1(w) == {q + 1 : q \in {x \in w : x < wordSize - 1}}

\* the bit carried out of the top of w into bit 0 of the next word
carryUp(w) == IF (wordSize - 1) \in w THEN {0} ELSE {}

\* the bit carried out of the bottom of w into the top bit of the word below
carryDown(w) == IF 0 \in w THEN {wordSize - 1} ELSE {}

\* InsertAt that moves no bit across a word boundary
InsertAt_noCarry(b, idx) ==
  LET grown == IF wordsNeeded(b.length + 1) > Len(b.set) THEN Append(b.set, {}) ELSE b.set
      x == wordIndex(idx)
      off == idx % wordSize
  IN  Outcome([length |-> b.length + 1,
               set |-> [k \in 1 .. Len(grown) |->
                          IF k < x + 1 THEN grown[k]
                          ELSE IF k = x + 1
                            THEN {q \in grown[k] : q < off}
                                 \cup Shl1({q \in grown[k] : q >= off})
                          ELSE Shl1(grown[k])],
               nilset |-> FALSE],
              InRange(grown, x))

\* InsertAt that shifts the whole word of idx, the bits below idx included
InsertAt_wholeWord(b, idx) ==
  LET grown == IF wordsNeeded(b.length + 1) > Len(b.set) THEN Append(b.set, {}) ELSE b.set
      x == wordIndex(idx)
  IN  Outcome([length |-> b.length + 1,
               set |-> [k \in 1 .. Len(grown) |->
                          IF k < x + 1 THEN grown[k]
                          ELSE IF k = x + 1 THEN Shl1(grown[k])
                          ELSE Shl1(grown[k]) \cup carryUp(grown[k - 1])],
               nilset |-> FALSE],
              InRange(grown, x))

\* b.InsertAt(idx) for idx <= Len(): a clear bit at idx, every bit at or above
\* idx one place up, the length one more, one more word when the new length
\* needs it
InsertAt(b, idx) ==
  LET grown == IF wordsNeeded(b.length + 1) > Len(b.set) THEN Append(b.set, {}) ELSE b.set
      x == wordIndex(idx)
      off == idx % wordSize
  IN  Outcome([length |-> b.length + 1,
               set |-> [k \in 1 .. Len(grown) |->
                          IF k < x + 1 THEN grown[k]
                          ELSE IF k = x + 1
                            THEN {q \in grown[k] : q < off}
                                 \cup Shl1({q \in grown[k] : q >= off})
                          ELSE Shl1(grown[k]) \cup carryUp(grown[k - 1])],
               nilset |-> FALSE],
              InRange(grown, x))

\* b.DeleteAt(idx) for idx < Len(): the bit at idx removed, every bit above it
\* one place down, the length one less, and the words those the new length
\* needs
DeleteAt(b, idx) ==
  LET x == wordIndex(idx)
      off == idx % wordSize
      n == Len(b.set)
      carry(k) == IF k < n THEN carryDown(b.set[k + 1]) ELSE {}
      shifted == [k \in 1 .. n |->
                    IF k < x + 1 THEN b.set[k]
                    ELSE IF k = x + 1
                      THEN {q \in b.set[k] : q < off}
                           \cup Shr({q \in b.set[k] : q > off}, 1) \cup carry(k)
                    ELSE Shr(b.set[k], 1) \cup carry(k)]
  IN  Outcome([length |-> b.length - 1,
               set |-> SubSeq(shifted, 1, Min2(n, wordsNeeded(b.length - 1))),
               nilset |-> FALSE],
              InRange(b.set, x))

\* ------------------------------------------------------------- rank, select
\* Rank that leaves out the bit at index itself
Rank_exclusive(b, index) ==
  LET x == wordIndex(index)
      below == popcntSlice(SubSeq(b.set, 1, Min2(x, Len(b.set))))
  IN  IF InRange(b.set, x)
      THEN below + OnesCount64(And(b.set[x + 1], {q \in allBits : q < index % wordSize}))
      ELSE below

\* b.Rank(index): the popcount of the words below the word of index, and of
\* bits 0 .. index mod 64 of that word
Rank(b, index) ==
  LET x == wordIndex(index)
      below == popcntSlice(SubSeq(b.set, 1, Min2(x, Len(b.set))))
  IN  IF InRange(b.set, x)
      THEN below + OnesCount64(And(b.set[x + 1], {q \in allBits : q <= index % wordSize}))
      ELSE below

\* the position in w of its set bit number j, counted from 0: clear the lowest
\* set bit j times, then count the trailing zeroes
RECURSIVE selectInWord(_, _)
selectInWord(w, j) ==
  IF j = 0 THEN trailingZeroes64(w) ELSE selectInWord(w \ {Min(w)}, j - 1)

\* the scan of the words from word x on, with k set bits still to pass
RECURSIVE scanSelect(_, _, _)
scanSelect(b, x, k) ==
  IF ~InRange(b.set, x) THEN [n |-> b.length, found |-> FALSE]
  ELSE LET c == OnesCount64(b.set[x + 1])
       IN  IF k < c
           THEN [n |-> x * wordSize + selectInWord(b.set[x + 1], k), found |-> TRUE]
           ELSE scanSelect(b, x + 1, k - c)

\* b.Select(index): the position of the set bit of rank index + 1; the length
\* when there are not that many set bits
Select(b, index) == scanSelect(b, 0, index)

\* ---------------------------------------------------------- extract, deposit
\* the number of bits of m below position q
rankIn(m, q) == Cardinality({x \in m : x < q})

\* pext that leaves the selected bits where they are
pext_inPlace(w, m) == And(w, m)

\* pext(w, m): the bits of w that m selects, packed from bit 0 up in ascending
\* order
pext(w, m) == {rankIn(m, q) : q \in And(w, m)}

\* pdep(w, m): the low popcount(m) bits of w scattered to the positions m
\* selects
pdep(w, m) == {q \in m : rankIn(m, q) \in w}

\* the bit that the words of b hold at position p
storedBit(b, p) == InRange(b.set, wordIndex(p)) /\ (p % wordSize) \in b.set[wordIndex(p) + 1]

\* the number of mask bits in the words before word i
maskBitsBefore(mask, i) == popcntSlice(SubSeq(mask.set, 1, i - 1))

\* b.ExtractTo(mask, dst): the bits of b that mask selects, word by word
\* through pext, seamed together from position 0 of dst; dst must have the
\* words to hold them
ExtractTo(b, mask, dst) ==
  LET n == Min2(Len(mask.set), Len(b.set))
      total == maskBitsBefore(mask, n + 1)
      packed == UNION {{maskBitsBefore(mask, i) + j : j \in pext(b.set[i], mask.set[i])}
                         : i \in 1 .. n}
      word(k) == {q \in allBits : (k - 1) * wordSize + q < total}
  IN  IF total > wordSize * Len(dst.set) THEN [dst |-> dst, ok |-> FALSE]
      ELSE [dst |-> [dst EXCEPT !.set =
                       [k \in 1 .. Len(dst.set) |->
                          AndNot(dst.set[k], word(k))
                          \cup {q \in word(k) : ((k - 1) * wordSize + q) \in packed}]],
            ok |-> TRUE]

\* b.DepositTo(mask, dst): the low bits of b, in ascending order, scattered
\* word by word through pdep to the positions of dst that mask selects; the
\* other positions of dst stay
DepositTo(b, mask, dst) ==
  LET n == Min2(Len(mask.set), Len(dst.set))
      chunk(i) == {j \in allBits : storedBit(b, maskBitsBefore(mask, i) + j)}
  IN  [dst |-> [dst EXCEPT !.set =
                  [k \in 1 .. Len(dst.set) |->
                     IF k <= n
                     THEN AndNot(dst.set[k], mask.set[k]) \cup pdep(chunk(k), mask.set[k])
                     ELSE dst.set[k]]],
       ok |-> TRUE]

\* ------------------------------------------ length-less BitSet, ReadOnlyBitSet
\* The BitSet that is its words alone, and the ReadOnlyBitSet over the bytes
\* of such words; their byte order is little-endian.
logWordSize == 6

wordMask == wordSize - 1

\* bitSetIndexOf that does not shift
bitSetIndexOf_noShift(i) == i

\* int(i >> logWordSize)
bitSetIndexOf(i) == i \div (2 ^ logWordSize)

\* 1 << (i & wordMask)
bitOf(i) == {i % (wordMask + 1)}

NewBitSet(n) == make(bitSetIndexOf(n) + 1)

\* b.Test(i) on the words of b
BitSetTest(values, i) ==
  LET idx == bitSetIndexOf(i)
  IN  IF idx >= Len(values) THEN FALSE ELSE And(values[idx + 1], bitOf(i)) # {}

\* Set that grows without copy(newValues, b.values)
BitSetSet_noCopy(values, i) ==
  LET idx == bitSetIndexOf(i)
      grown == IF idx >= Len(values) THEN make(2 * (idx + 1)) ELSE values
  IN  [grown EXCEPT ![idx + 1] = Or(@, bitOf(i))]

\* b.Set(i) on the words of b: the words after the call
BitSetSet(values, i) ==
  LET idx == bitSetIndexOf(i)
      grown == IF idx >= Len(values) THEN copy(make(2 * (idx + 1)), values) ELSE values
  IN  [grown EXCEPT ![idx + 1] = Or(@, bitOf(i))]

\* b.ClearAll() on the words of b
BitSetClearAll(values) == [k \in 1 .. Len(values) |-> {}]

\* binary.LittleEndian: the least significant byte first
lePutUint64(w) == [j \in 1 .. 8 |-> byteOf(w, j - 1)]

leUint64(bs) == {p \in allBits : (bs[(p \div 8) + 1] \div (2 ^ (p % 8))) % 2 = 1}

\* b.ReadOnly(): the bytes that b.Write puts in the buffer
ReadOnly(values) ==
  [k \in 1 .. (8 * Len(values)) |-> lePutUint64(values[((k - 1) \div 8) + 1])[((k - 1) % 8) + 1]]

\* ------------------------------------------------- indexes at the top of uint
\* A uint at the top of its range is written as its residue modulo 2^64 of
\* least magnitude: -1 is 2^64 - 1, -2 is 2^64 - 2.  i + 1 on such a residue is
\* the machine's wrapping addition: (-1) + 1 = 0.  A uint of the model that is
\* not negative is the number itself.

\* ^uint(0)
Cap == -1

\* b.Test(i) for any uint i: a residue below 0 stands for an index >= b.length
TestUint(b, i) == IF i < 0 THEN FALSE ELSE Test(b, i)

\* Set at the top of uint with the length left as it was when i + 1 wraps
SetUint_noWrap(b, i) == IF i >= 0 THEN Set(b, i) ELSE Outcome(b, FALSE)

\* b.Set(i) for any uint i.  For i = Cap(), i + 1 wraps to 0: extendSetMaybe
\* asks for wordsNeeded(0) = 0 words, so it keeps the words there are (or makes
\* none for a nil set) and assigns the length 0; b.set[i >> 6] then indexes word
\* 2^58 - 1, which no slice of at most (2^64 - 1) >> 6 words holds, and panics.
\* For the other indexes from 2^64 - 64 on, wordsNeeded(i + 1) takes its
\* saturating branch and make of (2^64 - 1) >> 6 words panics (len out of
\* range) before anything is assigned.
SetUint(b, i) ==
  IF i >= 0 THEN Set(b, i)
  ELSE IF i + 1 = 0
    THEN Outcome([length |-> i + 1,
                  set |-> IF b.nilset THEN make(wordsNeeded(i + 1)) ELSE b.set,
                  nilset |-> FALSE],
                 FALSE)
  ELSE Outcome(b, FALSE)

\* b.Flip(i) for any uint i: Set(i) when i >= b.length
FlipUint(b, i) == IF i >= 0 THEN Flip(b, i) ELSE SetUint(b, i)

\* ------------------------------------------------------------ state machine
\* b        the vector the caller holds and calls methods on
\* op       the call that has just returned (or panicked), "idle" between calls;
\*          arg its index argument; compare its operand
\* old      the receiver as it was before the last call
\* result   the vector the last call returned (Clone, Union, ...)
\* ret      the number and flag the last call returned
\* ok       the last call returned; FALSE when it panicked
\* operands the vectors the caller has built to pass as operands
\* stream   the byte buffer the caller writes a vector to and reads one from:
\*          its bytes and the read offset
\* err      the error the last call returned, "nil" when none
\* values   the words of the length-less BitSet that concurrent readers share
\* data     the bytes of the ReadOnlyBitSet made from it
\* readers  for each reader, where it stands in its Test call and what it
\*          has read so far
\* currSet  the values passed to Set of the length-less BitSet since its last
\*          ClearAll, as the property test keeps them
\* visited  the positions a NextSet loop has visited so far, in order
VARIABLES b, op, arg, compare, old, result, ret, ok, operands, stream, err,
          values, data, readers, currSet, visited

vars ==
  <<b, op, arg, compare, old, result, ret, ok, operands, stream, err, values, data, readers,
    currSet, visited>>

\* lengths given to New
NewLens == {0, wordSize, wordSize + 36}

\* indexes given to Set, Clear, SetTo and Flip: first and last bit of the first
\* word and of word MaxWord
Idx == {w * wordSize + o : w \in {0, MaxWord}, o \in {0, wordSize - 1}}

\* indexes given to the queries: also mid-word indexes and one past all storage
QIdx == Idx \cup NewLens \cup {(MaxWord + 1) * wordSize}

\* the positions the properties look at
Pos == 0 .. ((MaxWord + 1) * wordSize + 1)

\* vectors a caller can build and pass as the operand of a binary operation
Operands ==
  {ZeroValue} \cup {New(n) : n \in NewLens}
  \cup {Set(New(0), i).b : i \in Idx}
  \cup {Complement(New(n)).result : n \in NewLens}
  \cup {Clear(Complement(New(n)).result, i).b : n \in NewLens, i \in {0, wordSize - 1}}

NoRet == [n |-> 0, found |-> FALSE]

\* a buffer that holds nothing
EmptyBuffer == [buf |-> << >>, off |-> 0]

\* what a call leaves behind when it returns
Return(name, i, c, nb, res, r, k) ==
  /\ b' = nb
  /\ op' = name
  /\ arg' = i
  /\ compare' = c
  /\ old' = b
  /\ result' = res
  /\ ret' = r
  /\ ok' = k
  /\ UNCHANGED <<operands, values, data, readers, currSet, visited>>

\* a call that touches no stream
Call(name, i, c, nb, res, r, k) ==
  /\ op = "idle"
  /\ Return(name, i, c, nb, res, r, k)
  /\ UNCHANGED <<stream, err>>

Init ==
  /\ b \in {ZeroValue} \cup {New(n) : n \in NewLens}
  /\ op = "New"
  /\ arg = 0
  /\ compare = ZeroValue
  /\ old = ZeroValue
  /\ result = ZeroValue
  /\ ret = NoRet
  /\ ok = TRUE
  /\ operands = Operands
  /\ stream = EmptyBuffer
  /\ err = "nil"
  /\ values = << >>
  /\ data = << >>
  /\ readers = << >>
  /\ currSet = {}
  /\ visited = << >>

SetAct ==
  \E i \in Idx : LET r == Set(b, i) IN Call("Set", i, ZeroValue, r.b, ZeroValue, NoRet, r.ok)

ClearAct ==
  \E i \in QIdx : LET r == Clear(b, i) IN Call("Clear", i, ZeroValue, r.b, ZeroValue, NoRet, r.ok)

SetToAct ==
  \E i \in Idx, value \in BOOLEAN :
     LET r == SetTo(b, i, value)
     IN  Call("SetTo", i, ZeroValue, r.b, ZeroValue, [n |-> 0, found |-> value], r.ok)

FlipAct ==
  \E i \in Idx : LET r == Flip(b, i) IN Call("Flip", i, ZeroValue, r.b, ZeroValue, NoRet, r.ok)

ClearAllAct == Call("ClearAll", 0, ZeroValue, ClearAll(b), ZeroValue, NoRet, TRUE)

TestAct ==
  \E i \in QIdx :
     Call("Test", i, ZeroValue, b, ZeroValue, [n |-> 0, found |-> Test(b, i)], ~TestPanics(b, i))

CountAct == Call("Count", 0, ZeroValue, b, ZeroValue, [n |-> Count(b), found |-> FALSE], TRUE)

NextSetAct ==
  \E i \in QIdx : Call("NextSet", i, ZeroValue, b, ZeroValue, NextSet(b, i), TRUE)

NextClearAct ==
  \E i \in QIdx : Call("NextClear", i, ZeroValue, b, ZeroValue, NextClear(b, i), TRUE)

CloneAct == Call("Clone", 0, ZeroValue, b, Clone(b), NoRet, TRUE)

ComplementAct ==
  LET r == Complement(b) IN Call("Complement", 0, ZeroValue, b, r.result, NoRet, r.ok)

UnionAct ==
  \E c \in operands \cup {b} :
     LET r == Union(b, c) IN Call("Union", 0, c, b, r.result, NoRet, r.ok)

IntersectionAct ==
  \E c \in operands \cup {b} :
     LET r == Intersection(b, c) IN Call("Intersection", 0, c, b, r.result, NoRet, r.ok)

DifferenceAct ==
  \E c \in operands \cup {b} :
     LET r == Difference(b, c) IN Call("Difference", 0, c, b, r.result, NoRet, r.ok)

SymmetricDifferenceAct ==
  \E c \in operands \cup {b} :
     LET r == SymmetricDifference(b, c)
     IN  Call("SymmetricDifference", 0, c, b, r.result, NoRet, r.ok)

UnionCardinalityAct ==
  \E c \in operands \cup {b} :
     LET r == UnionCardinality(b, c)
     IN  Call("UnionCardinality", 0, c, b, ZeroValue, [n |-> r.n, found |-> FALSE], r.ok)

IntersectionCardinalityAct ==
  \E c \in operands \cup {b} :
     LET r == IntersectionCardinality(b, c)
     IN  Call("IntersectionCardinality", 0, c, b, ZeroValue, [n |-> r.n, found |-> FALSE], r.ok)

DifferenceCardinalityAct ==
  \E c \in operands \cup {b} :
     LET r == DifferenceCardinality(b, c)
     IN  Call("DifferenceCardinality", 0, c, b, ZeroValue, [n |-> r.n, found |-> FALSE], r.ok)

SymmetricDifferenceCardinalityAct ==
  \E c \in operands \cup {b} :
     LET r == SymmetricDifferenceCardinality(b, c)
     IN  Call("SymmetricDifferenceCardinality", 0, c, b, ZeroValue,
              [n |-> r.n, found |-> FALSE], r.ok)

InPlaceUnionAct ==
  \E c \in operands \cup {b} :
     LET r == InPlaceUnion(b, c) IN Call("InPlaceUnion", 0, c, r.b, ZeroValue, NoRet, r.ok)

InPlaceIntersectionAct ==
  \E c \in operands \cup {b} :
     LET r == InPlaceIntersection(b, c)
     IN  Call("InPlaceIntersection", 0, c, r.b, ZeroValue, NoRet, r.ok)

InPlaceDifferenceAct ==
  \E c \in operands \cup {b} :
     LET r == InPlaceDifference(b, c)
     IN  Call("InPlaceDifference", 0, c, r.b, ZeroValue, NoRet, r.ok)

InPlaceSymmetricDifferenceAct ==
  \E c \in operands \cup {b} :
     LET r == InPlaceSymmetricDifference(b, c)
     IN  Call("InPlaceSymmetricDifference", 0, c, r.b, ZeroValue, NoRet, r.ok)

\* the calls that return a new vector
ResultOps ==
  {"Clone", "Complement", "Union", "Intersection", "Difference", "SymmetricDifference"}

\* between two calls the caller holds b alone
Idle(nb) ==
  /\ ok
  /\ b' = nb
  /\ op' = "idle"
  /\ arg' = 0
  /\ compare' = ZeroValue
  /\ old' = ZeroValue
  /\ result' = ZeroValue
  /\ ret' = NoRet
  /\ ok' = TRUE
  /\ stream' = EmptyBuffer
  /\ err' = "nil"
  /\ UNCHANGED <<operands, values, data, readers, currSet, visited>>

\* the caller has looked at what the call returned and goes on with b;
\* a panic ends the run
Continue ==
  /\ op # "idle"
  /\ Idle(b)

\* the caller goes on with the returned vector, as in b.Union(c).Count()
UseResult ==
  /\ op \in ResultOps
  /\ Idle(result)

Next ==
  \/ SetAct
  \/ ClearAct
  \/ SetToAct
  \/ FlipAct
  \/ ClearAllAct
  \/ TestAct
  \/ CountAct
  \/ NextSetAct
  \/ NextClearAct
  \/ CloneAct
  \/ ComplementAct
  \/ UnionAct
  \/ IntersectionAct
  \/ DifferenceAct
  \/ SymmetricDifferenceAct
  \/ UnionCardinalityAct
  \/ IntersectionCardinalityAct
  \/ DifferenceCardinalityAct
  \/ SymmetricDifferenceCardinalityAct
  \/ InPlaceUnionAct
  \/ InPlaceIntersectionAct
  \/ InPlaceDifferenceAct
  \/ InPlaceSymmetricDifferenceAct
  \/ Continue
  \/ UseResult

Spec == Init /\ [][Next]_vars

\* the caller copies one of its operand vectors into b: c.Copy(b)
CopyAct ==
  \E c \in operands :
     LET r == Copy(c, b)
     IN  Call("Copy", 0, c, r.c, ZeroValue, [n |-> r.count, found |-> FALSE], TRUE)

\* c.Copy(nil) for one of the operand vectors: nothing is copied, and the
\* vector the caller holds is not involved
CopyNilAct ==
  \E c \in operands :
     LET r == Copy(c, Null)
     IN  /\ op = "idle"
         /\ b' = b
         /\ op' = "Copy"
         /\ arg' = 0
         /\ compare' = c
         /\ old' = Null
         /\ result' = ZeroValue
         /\ ret' = [n |-> r.count, found |-> FALSE]
         /\ ok' = TRUE
         /\ UNCHANGED <<operands, values, data, readers, currSet, visited, stream, err>>

NextCopy ==
  \/ SetAct
  \/ ClearAct
  \/ TestAct
  \/ CopyAct
  \/ CopyNilAct
  \/ Continue

\* the calls of Spec restricted to Set, Clear and Test, with Copy added
SpecCopy == Init /\ [][NextCopy]_vars

\* ------------------------------------------------------------------- claims
CeilWords(n) == IF n % wordSize = 0 THEN n \div wordSize ELSE n \div wordSize + 1

\* the bit stored at position p of the backing words, whatever the length says
Stored(v, p) == InRange(v.set, wordIndex(p)) /\ (p % wordSize) \in v.set[wordIndex(p) + 1]

\* tail cleanliness: ceil(length/64) words, and no stored 1 bit at or beyond length
TailClean(v) ==
  /\ Len(v.set) = CeilWords(v.length)
  /\ \A k \in 1 .. Len(v.set) : \A p \in v.set[k] : (k - 1) * wordSize + p < v.length

\* the positions below its length where v tests true
TrueBits(v) == {p \in 0 .. (v.length - 1) : Test(v, p)}

\* C1: after every call of Set, Clear, SetTo, Flip, ClearAll and the four
\* InPlace operations, and in every vector returned by Clone, Union,
\* Intersection, Difference, SymmetricDifference and Complement, the vector has
\* ceil(Len()/64) words and no stored 1 bit at a position >= Len().
C1_TailCleanliness ==
  /\ TailClean(b)
  /\ op \in ResultOps => (ok /\ TailClean(result))

\* Complement of a vector whose length is no multiple of 64 returned a vector
\* with set bits in its partial last word
C1_Witness ==
  /\ op = "Complement"
  /\ result.length % wordSize # 0
  /\ result.set[Len(result.set)] # {}
  /\ TailClean(result)

\* C2: for i >= Len(), Test(i) returns false and Clear(i) changes nothing:
\* each returns without a panic, and length and words are as before, whatever
\* the backing words hold.
C2_OutOfRangeBenign ==
  /\ (op = "Test" /\ arg >= old.length) => (ok /\ ~ret.found /\ b = old)
  /\ (op = "Clear" /\ arg >= old.length) => (ok /\ b = old)

\* Clear(i) with i >= Len() on a vector whose stored bit i is 1 (left there
\* by Copy from a longer vector)
C2_Witness ==
  /\ op = "Clear"
  /\ arg >= old.length
  /\ Stored(old, arg)
  /\ b = old

\* C3: right after Set(i), Test(i) is true; right after Clear(i), Test(i) is
\* false; right after Flip(i), Test(i) is the negation of Test(i) before.
C3_SetClearFlip ==
  /\ op = "Set" => (ok /\ Test(b, arg))
  /\ op = "Clear" => (ok /\ ~Test(b, arg))
  /\ op = "Flip" => (ok /\ Test(b, arg) = ~Test(old, arg))

\* Flip(i) with i >= Len() that had to add a word
C3_Witness ==
  /\ op = "Flip"
  /\ arg >= old.length
  /\ Len(b.set) > Len(old.set)
  /\ Test(b, arg)

\* C4: Set(i) leaves Len() = max(L, i+1), and every position that tested true
\* before the call tests true after it.
C4_SetGrowth ==
  op = "Set" =>
    /\ ok
    /\ b.length = Max2(old.length, arg + 1)
    /\ \A p \in Pos : Test(old, p) => Test(b, p)

\* Set(i) reallocated the words of a vector that had bits set
C4_Witness ==
  /\ op = "Set"
  /\ ~old.nilset
  /\ Len(old.set) > 0
  /\ Len(b.set) > Len(old.set)
  /\ TrueBits(old) # {}
  /\ b.length = arg + 1

\* C5: Count() is the number of positions i in [0, Len()) with Test(i) true,
\* and so Count() <= Len().
C5_CountMatchesTest ==
  op = "Count" => (ret.n = Cardinality(TrueBits(b)) /\ ret.n <= b.length)

\* Count() of a two-word vector with a partial last word, some bits set
C5_Witness ==
  /\ op = "Count"
  /\ b.length > wordSize
  /\ b.length % wordSize # 0
  /\ ret.n > 1
  /\ ret.n < b.length

\* C6: at every index i, Union tests a || b, Intersection a && b, Difference
\* a && !b and SymmetricDifference a != b, positions beyond an operand's length
\* counting as false.
C6_SetAlgebraBits ==
  /\ op = "Union" =>
       (ok /\ \A i \in Pos : Test(result, i) = (Test(old, i) \/ Test(compare, i)))
  /\ op = "Intersection" =>
       (ok /\ \A i \in Pos : Test(result, i) = (Test(old, i) /\ Test(compare, i)))
  /\ op = "Difference" =>
       (ok /\ \A i \in Pos : Test(result, i) = (Test(old, i) /\ ~Test(compare, i)))
  /\ op = "SymmetricDifference" =>
       (ok /\ \A i \in Pos : Test(result, i) = (Test(old, i) # Test(compare, i)))

\* Difference of a longer receiver and a shorter operand that share set bits
C6_Witness ==
  /\ op = "Difference"
  /\ old.length > compare.length
  /\ TrueBits(old) \cap TrueBits(compare) # {}
  /\ TrueBits(result) # {}

\* C7: Union and SymmetricDifference have length max(a.Len(), b.Len()),
\* Intersection min(a.Len(), b.Len()), Difference a.Len().
C7_SetAlgebraLengths ==
  /\ op \in {"Union", "SymmetricDifference"} =>
       (ok /\ result.length = Max2(old.length, compare.length))
  /\ op = "Intersection" => (ok /\ result.length = Min2(old.length, compare.length))
  /\ op = "Difference" => (ok /\ result.length = old.length)

\* Intersection of a receiver with more words than the operand
C7_Witness ==
  /\ op = "Intersection"
  /\ Len(old.set) > Len(compare.set)
  /\ compare.length > 0
  /\ result.length = compare.length

\* C8: each Cardinality call returns the Count() of the vector the matching
\* functional operation returns, for vectors of any length, without a panic
\* and without changing the receiver.
C8_CardinalityMatches ==
  /\ op = "UnionCardinality" =>
       (ok /\ ret.n = Count(Union(old, compare).result) /\ b = old)
  /\ op = "IntersectionCardinality" =>
       (ok /\ ret.n = Count(Intersection(old, compare).result) /\ b = old)
  /\ op = "DifferenceCardinality" =>
       (ok /\ ret.n = Count(Difference(old, compare).result) /\ b = old)
  /\ op = "SymmetricDifferenceCardinality" =>
       (ok /\ ret.n = Count(SymmetricDifference(old, compare).result) /\ b = old)

\* C9: NextSet(i) returns (p, true) for the smallest p >= i with Test(p) true
\* when there is one, (0, false) otherwise, and leaves the vector as it was.
C9_NextSet ==
  op = "NextSet" =>
    LET S == {p \in TrueBits(b) : p >= arg}
    IN  /\ S # {} => ret = [n |-> Min(S), found |-> TRUE]
        /\ S = {} => ret = [n |-> 0, found |-> FALSE]
        /\ b = old

\* NextSet(i) found its bit in a later word than the word of i
C9_Witness ==
  /\ op = "NextSet"
  /\ ret.found
  /\ arg % wordSize # 0
  /\ wordIndex(ret.n) > wordIndex(arg)

\* C10: NextClear(i) returns (p, true) only for the smallest p with
\* i <= p < Len() and Test(p) false, and (0, false) when every position of
\* [i, Len()) is set.
C10_NextClear ==
  op = "NextClear" =>
    LET S == {p \in 0 .. (b.length - 1) : p >= arg /\ ~Test(b, p)}
    IN  /\ ret.found => (S # {} /\ ret.n = Min(S))
        /\ S = {} => ret = [n |-> 0, found |-> FALSE]

\* C11: after src.Copy(dst) into a dst whose length is no multiple of 64, no
\* stored bit of dst at a position >= dst.Len() is set, so that dst.Count() is
\* at most dst.Len() and is the number of i < dst.Len() with Test(i) true.
C11_CopyMasksTail ==
  (op = "Copy" /\ b.length % wordSize # 0) =>
    /\ \A p \in Pos : Stored(b, p) => p < b.length
    /\ Count(b) <= b.length
    /\ Count(b) = Cardinality(TrueBits(b))

\* ------------------------------------------------------- codec state machine
\* The caller writes the vector it holds to a fresh buffer, may cut the buffer
\* short or write more data behind the encoding, and has another vector read
\* the buffer; it then goes on with that vector.

\* bytes that follow an encoding on the stream
Extra == <<49, 50, 51>>

WriteToAct ==
  LET w == WriteTo(b, EmptyBuffer)
  IN  /\ op = "idle"
      /\ Return("WriteTo", 0, ZeroValue, b, ZeroValue, [n |-> w.n, found |-> FALSE], TRUE)
      /\ stream' = w.stream
      /\ err' = w.err

\* buf.Write(addBuf)
AppendAct ==
  /\ op = "WriteTo"
  /\ Return("Append", 0, ZeroValue, b, ZeroValue, NoRet, TRUE)
  /\ stream' = [stream EXCEPT !.buf = @ \o Extra]
  /\ err' = "nil"

\* the stream ends after k bytes of the encoding
TruncateAct ==
  \E k \in 0 .. (Len(stream.buf) - 1) :
     /\ op = "WriteTo"
     /\ Return("Truncate", k, ZeroValue, b, ZeroValue, NoRet, TRUE)
     /\ stream' = [stream EXCEPT !.buf = SubSeq(@, 1, k)]
     /\ err' = "nil"

\* lengths a producer of the bytes may declare in the length field
DeclaredLens == {1, wordSize + 1}

\* the bytes come from a producer that declares a shorter length for the same
\* words: the length field holds n, the words follow as they are
DeclareAct ==
  \E n \in DeclaredLens :
     /\ op = "WriteTo"
     /\ n < b.length
     /\ wordsNeeded(n) = Len(b.set)
     /\ Return("Declare", n, ZeroValue, b, ZeroValue, NoRet, TRUE)
     /\ stream' = [stream EXCEPT !.buf = PutUint64(uint64Of(n)) \o SubSeq(@, 9, Len(@))]
     /\ err' = "nil"

\* r.ReadFrom(&buf) for a vector r the caller has built
ReadFromAct ==
  \E r \in operands :
     LET d == ReadFrom(r, stream)
     IN  /\ op \in {"WriteTo", "Append", "Truncate", "Declare"}
         /\ Return("ReadFrom", 0, r, d.b, ZeroValue, [n |-> d.n, found |-> FALSE], TRUE)
         /\ stream' = d.stream
         /\ err' = d.err

MarshalJSONAct ==
  LET m == MarshalJSON(b)
  IN  /\ op = "idle"
      /\ Return("MarshalJSON", 0, ZeroValue, b, ZeroValue, NoRet, TRUE)
      /\ stream' = [buf |-> m.data, off |-> 0]
      /\ err' = m.err

\* the ways a JSON text is damaged: the closing quotation mark lost, a
\* character that is not of the base64 alphabet ('*') in place of the first,
\* only the first four base64 characters left
Damages == {"unquoted", "alphabet", "short"}

Damaged(text, kind) ==
  CASE kind = "unquoted" -> SubSeq(text, 1, Len(text) - 1)
    [] kind = "alphabet" -> [text EXCEPT ![2] = 42]
    [] kind = "short" -> SubSeq(text, 1, 5) \o <<quote>>

\* the text MarshalJSON returned reaches the reader damaged
DamageAct ==
  \E kind \in Damages :
     /\ op = "MarshalJSON"
     /\ Return("Damage", 0, ZeroValue, b, ZeroValue, NoRet, TRUE)
     /\ stream' = [stream EXCEPT !.buf = Damaged(@, kind)]
     /\ err' = "nil"

\* r.UnmarshalJSON(data) with the text MarshalJSON returned, or that text
\* damaged
UnmarshalJSONAct ==
  \E r \in operands :
     LET u == UnmarshalJSON(r, stream.buf)
     IN  /\ op \in {"MarshalJSON", "Damage"}
         /\ Return("UnmarshalJSON", 0, r, u.b, ZeroValue, NoRet, TRUE)
         /\ stream' = stream
         /\ err' = u.err

NextCodec ==
  \/ SetAct
  \/ ClearAct
  \/ CopyAct
  \/ WriteToAct
  \/ AppendAct
  \/ TruncateAct
  \/ DeclareAct
  \/ ReadFromAct
  \/ MarshalJSONAct
  \/ DamageAct
  \/ UnmarshalJSONAct
  \/ Continue

SpecCodec == Init /\ [][NextCodec]_vars

\* the bytes WriteTo(v) puts on an empty stream
Encoding(v) == WriteTo(v, EmptyBuffer).stream.buf

\* C12: decoding what WriteTo(v) wrote with ReadFrom, and what MarshalJSON(v)
\* returned with UnmarshalJSON, into any receiver succeeds and leaves the
\* receiver Equal to v, with the same Len() and the same Test(i) at every i;
\* v may be the empty vector of length 0 or the zero value.
C12_RoundTrip ==
  ((op = "ReadFrom" /\ stream.buf = Encoding(old))
     \/ (op = "UnmarshalJSON" /\ stream.buf = MarshalJSON(old).data)) =>
    /\ err = "nil"
    /\ ~EqualPanics(b, old)
    /\ Equal(b, old)
    /\ b.length = old.length
    /\ \A i \in Pos : Test(b, i) = Test(old, i)

\* UnmarshalJSON into a receiver that differed from v, for a v of two words
\* with bits set in both
C12_Witness ==
  /\ op = "UnmarshalJSON"
  /\ stream.buf = MarshalJSON(old).data
  /\ Len(old.set) = MaxWord + 1
  /\ old.set[1] # {}
  /\ old.set[MaxWord + 1] # {}
  /\ old.set[1] # old.set[MaxWord + 1]
  /\ ~Equal(compare, old)
  /\ Equal(b, old)

\* C13: ReadFrom on a stream that ends before the 8-byte length field and all
\* the ceil(length/64) words have been read returns an UnexpectedEOF error; it
\* never reports success.
C13_TruncatedIsUnexpectedEOF ==
  (op = "ReadFrom" /\ Len(stream.buf) < Len(Encoding(old))
     /\ stream.buf = SubSeq(Encoding(old), 1, Len(stream.buf))) =>
    /\ err = "ErrUnexpectedEOF"
    /\ ret.n = 0

\* C14: WriteTo(v) emits 8 + 8*ceil(v.Len()/64) bytes, the length first and
\* then the words in index order, and returns that number; ReadFrom on that
\* encoding followed by more bytes consumes and returns the same number and
\* leaves the bytes that follow unread.
C14_CodecFrame ==
  /\ op = "WriteTo" =>
       /\ err = "nil"
       /\ ret.n = 8 + 8 * CeilWords(b.length)
       /\ Len(stream.buf) = ret.n
       /\ Uint64(SubSeq(stream.buf, 1, 8)) = uint64Of(b.length)
       /\ \A k \in 1 .. CeilWords(b.length) :
             Uint64(SubSeq(stream.buf, 8 * k + 1, 8 * k + 8)) = b.set[k]
  /\ (op = "ReadFrom" /\ stream.buf = Encoding(old) \o Extra) =>
       /\ err = "nil"
       /\ ret.n = 8 + 8 * CeilWords(old.length)
       /\ stream.off = ret.n
       /\ SubSeq(stream.buf, stream.off + 1, Len(stream.buf)) = Extra

\* ReadFrom stopped after the encoding of a vector with a partial last word
\* and left the bytes behind it
C14_Witness ==
  /\ op = "ReadFrom"
  /\ stream.buf = Encoding(old) \o Extra
  /\ old.length % wordSize # 0
  /\ old.length > wordSize
  /\ stream.off = 8 + 8 * (MaxWord + 1)
  /\ Len(stream.buf) = stream.off + Len(Extra)

\* ------------------------------------------------------------ nil operands
\* the binary operations: functional, cardinality and in-place
FunctionalOps == {"Union", "Intersection", "Difference", "SymmetricDifference"}

CardinalityOps ==
  {"UnionCardinality", "IntersectionCardinality", "DifferenceCardinality",
   "SymmetricDifferenceCardinality"}

InPlaceOps ==
  {"InPlaceUnion", "InPlaceIntersection", "InPlaceDifference", "InPlaceSymmetricDifference"}

BinaryOps == FunctionalOps \cup CardinalityOps \cup InPlaceOps

\* what the call x.name(c) returns
callBinary(name, x, c) ==
  CASE name = "Union" -> Union(x, c)
    [] name = "Intersection" -> Intersection(x, c)
    [] name = "Difference" -> Difference(x, c)
    [] name = "SymmetricDifference" -> SymmetricDifference(x, c)
    [] name = "UnionCardinality" -> UnionCardinality(x, c)
    [] name = "IntersectionCardinality" -> IntersectionCardinality(x, c)
    [] name = "DifferenceCardinality" -> DifferenceCardinality(x, c)
    [] name = "SymmetricDifferenceCardinality" -> SymmetricDifferenceCardinality(x, c)
    [] name = "InPlaceUnion" -> InPlaceUnion(x, c)
    [] name = "InPlaceIntersection" -> InPlaceIntersection(x, c)
    [] name = "InPlaceDifference" -> InPlaceDifference(x, c)
    [] name = "InPlaceSymmetricDifference" -> InPlaceSymmetricDifference(x, c)

\* the value a call panicked with, "nil" when it did not panic with one
panicValue(r) == IF "panic" \in DOMAIN r THEN r.panic ELSE "nil"

\* the vector a call returned, the number it returned, the receiver after it
resultOf(r) == IF "result" \in DOMAIN r THEN r.result ELSE ZeroValue

countOf(r) == IF "n" \in DOMAIN r THEN r.n ELSE 0

receiverOf(r, x) == IF "b" \in DOMAIN r THEN r.b ELSE x

\* b.name(compare) with a nil compare
NilOperandAct ==
  \E name \in BinaryOps :
     LET r == callBinary(name, b, Null)
     IN  /\ op = "idle"
         /\ Return(name, 0, Null, receiverOf(r, b), resultOf(r),
                   [n |-> countOf(r), found |-> FALSE], r.ok)
         /\ err' = panicValue(r)
         /\ UNCHANGED stream

\* p.name(c) on a nil p, with the vector the caller holds or nil as c
NilReceiverAct ==
  \E name \in BinaryOps, c \in {b, Null} :
     LET r == callBinary(name, Null, c)
     IN  /\ op = "idle"
         /\ b' = b
         /\ op' = name
         /\ arg' = 0
         /\ compare' = c
         /\ old' = receiverOf(r, Null)
         /\ result' = resultOf(r)
         /\ ret' = [n |-> countOf(r), found |-> FALSE]
         /\ ok' = r.ok
         /\ err' = panicValue(r)
         /\ UNCHANGED <<operands, values, data, readers, currSet, visited, stream>>

\* a panic that the caller recovers from, as the tests do
RecoverAct ==
  /\ ~ok
  /\ b' = b
  /\ op' = "idle"
  /\ arg' = 0
  /\ compare' = ZeroValue
  /\ old' = ZeroValue
  /\ result' = ZeroValue
  /\ ret' = NoRet
  /\ ok' = TRUE
  /\ err' = "nil"
  /\ UNCHANGED <<operands, values, data, readers, currSet, visited, stream>>

NextNil ==
  \/ SetAct
  \/ FlipAct
  \/ NilOperandAct
  \/ NilReceiverAct
  \/ RecoverAct
  \/ Continue

SpecNil == Init /\ [][NextNil]_vars

\* C15: each of Union, Intersection, Difference, SymmetricDifference, their
\* Cardinality and their InPlace variants panics with BitSetError when the
\* receiver or the argument is nil; nothing is returned and the operand that is
\* present is as it was.
C15_NilOperandPanics ==
  (op \in BinaryOps /\ (old = Null \/ compare = Null)) =>
    /\ ~ok
    /\ err = "BitSetError"
    /\ result = Null
    /\ ret = NoRet
    /\ old # Null => b = old
    /\ (old = Null /\ compare # Null) => b = compare

\* an in-place operation called on a vector with bits set and a nil argument
C15_Witness ==
  /\ op \in InPlaceOps
  /\ compare = Null
  /\ old # Null
  /\ TrueBits(old) # {}
  /\ ~ok
  /\ b = old

\* ------------------------------------------------------------------ growth
\* the calls that write to the vector the caller holds
NextGrow ==
  \/ SetAct
  \/ ClearAct
  \/ SetToAct
  \/ FlipAct
  \/ ClearAllAct
  \/ CopyAct
  \/ InPlaceUnionAct
  \/ InPlaceIntersectionAct
  \/ InPlaceDifferenceAct
  \/ InPlaceSymmetricDifferenceAct
  \/ Continue

SpecGrow == Init /\ [][NextGrow]_vars

\* C16: no call of Set, Clear, SetTo, Flip, ClearAll, Copy (as destination) or
\* of an InPlace operation decreases Len() or the number of backing words, so
\* that both never decrease along a sequence of these calls.
C16_NeverShrinks ==
  [][b'.length >= b.length /\ Len(b'.set) >= Len(b.set)]_vars

\* InPlaceIntersection with an operand of fewer words left a vector that had
\* bits set at its length and word count
C16_Witness ==
  /\ op = "InPlaceIntersection"
  /\ ok
  /\ Len(compare.set) < Len(old.set)
  /\ TrueBits(old) # {}
  /\ b.length = old.length
  /\ Len(b.set) = Len(old.set)

\* ---------------------------------------------------- structural edit calls
\* positions given to InsertAt and DeleteAt
EditPos == QIdx \cup {1, wordSize + 1}

EditOps == {"InsertAt", "DeleteAt"}

\* InsertAt is called on vectors of at most this length
MaxEditLen == (MaxWord + 1) * wordSize

InsertAtAct ==
  \E p \in EditPos :
     LET r == InsertAt(b, p)
     IN  /\ p <= b.length
         /\ b.length <= MaxEditLen
         /\ Call("InsertAt", p, ZeroValue, r.b, ZeroValue, NoRet, r.ok)

DeleteAtAct ==
  \E p \in EditPos :
     LET r == DeleteAt(b, p)
     IN  /\ p < b.length
         /\ Call("DeleteAt", p, ZeroValue, r.b, ZeroValue, NoRet, r.ok)

\* the chained call b.InsertAt(p).DeleteAt(p): old stays the vector before
\* the insertion, compare is the vector between the two calls
DeleteInsertedAct ==
  LET r == DeleteAt(b, arg)
  IN  /\ op = "InsertAt"
      /\ ok
      /\ b' = r.b
      /\ op' = "DeleteAt"
      /\ arg' = arg
      /\ compare' = b
      /\ old' = old
      /\ result' = ZeroValue
      /\ ret' = NoRet
      /\ ok' = r.ok
      /\ UNCHANGED <<operands, values, data, readers, currSet, visited, stream, err>>

\* a run makes one structural edit, or one insertion undone, on the vector it
\* has built
NextEdit ==
  \/ SetAct
  \/ ClearAct
  \/ ComplementAct
  \/ InsertAtAct
  \/ DeleteAtAct
  \/ DeleteInsertedAct
  \/ (op \notin EditOps /\ Continue)
  \/ UseResult

SpecEdit == Init /\ [][NextEdit]_vars

SelIdx == (0 .. 3) \cup {wordSize - 1, wordSize, wordSize + 35}

RankAct ==
  \E i \in QIdx :
     Call("Rank", i, ZeroValue, b, ZeroValue, [n |-> Rank(b, i), found |-> FALSE], TRUE)

SelectAct == \E k \in SelIdx : Call("Select", k, ZeroValue, b, ZeroValue, Select(b, k), TRUE)

NextRank ==
  \/ SetAct
  \/ ClearAct
  \/ ComplementAct
  \/ RankAct
  \/ SelectAct
  \/ Continue
  \/ UseResult

SpecRank == Init /\ [][NextRank]_vars

\* C18: for every v and every k with 0 <= k < v.Count(), Select(k) is a
\* position where Test is true and Rank(Select(k)) = k + 1; Rank(i) is the
\* number of set bits at positions <= i.
C18_RankSelect ==
  /\ (op = "Select" /\ arg < Count(b)) =>
       /\ ret.found
       /\ Test(b, ret.n)
       /\ Rank(b, ret.n) = arg + 1
       /\ Cardinality({p \in TrueBits(b) : p <= ret.n}) = arg + 1
  /\ op = "Rank" => ret.n = Cardinality({p \in TrueBits(b) : p <= arg})

\* Select found its bit in the second word, past a first word with bits set
C18_Witness ==
  /\ op = "Select"
  /\ arg > 0
  /\ arg < Count(b)
  /\ ret.n >= wordSize
  /\ b.set[1] # {}
  /\ Rank(b, ret.n) = arg + 1

\* ----------------------------------------------------- extract, deposit calls
\* b.ExtractTo(mask, dst) with a mask of the length of b and a fresh dst of
\* the length of b, or of just the Count() of the mask; result is dst after
\* the call and arg the length dst was made with
ExtractToAct ==
  \E mask \in operands \cup {b} :
     \E n \in {b.length, Count(mask)} :
        LET r == ExtractTo(b, mask, New(n))
        IN  /\ mask.length = b.length
            /\ Call("ExtractTo", n, mask, b, r.dst, NoRet, r.ok)

\* dst.DepositTo(mask, deposited) for the dst that ExtractTo has filled and a
\* fresh deposited of the length of b; result is deposited after the call
DepositToAct ==
  LET r == DepositTo(result, compare, New(b.length))
  IN  /\ op = "ExtractTo"
      /\ ok
      /\ b' = b
      /\ op' = "DepositTo"
      /\ arg' = arg
      /\ compare' = compare
      /\ old' = old
      /\ result' = r.dst
      /\ ret' = NoRet
      /\ ok' = r.ok
      /\ UNCHANGED <<operands, values, data, readers, currSet, visited, stream, err>>

NextExtract ==
  \/ SetAct
  \/ ClearAct
  \/ ComplementAct
  \/ ExtractToAct
  \/ DepositToAct
  \/ Continue
  \/ UseResult

SpecExtract == Init /\ [][NextExtract]_vars

\* C19: for a source v, a mask m of the same length and a destination large
\* enough for Count(m) bits, ExtractTo puts the bit of v at the k-th position
\* that m selects (the one with k selected positions below it) at position k
\* of the destination, and DepositTo of that
\* result under m into an all-zero vector reproduces v at every position m
\* selects: its Intersection with m is Equal to the Intersection of v with m.
C19_ExtractDepositRoundTrip ==
  /\ op = "ExtractTo" =>
       LET selected == TrueBits(compare)
       IN  /\ ok
           /\ \A p \in selected :
                 Test(result, Cardinality({x \in selected : x < p})) = Test(old, p)
  /\ op = "DepositTo" =>
       LET x == Intersection(result, compare)
           y == Intersection(old, compare)
       IN  /\ ok
           /\ x.ok
           /\ y.ok
           /\ ~EqualPanics(x.result, y.result)
           /\ Equal(x.result, y.result)
           /\ \A p \in Pos : Test(compare, p) => (Test(result, p) = Test(old, p))

\* a round trip under a mask whose first word selects 63 positions, so that
\* the bits of the second word are packed across a word seam, for a source
\* with selected bits set in both words
C19_Witness ==
  /\ op = "DepositTo"
  /\ Len(compare.set) = MaxWord + 1
  /\ Len(old.set) = MaxWord + 1
  /\ Cardinality(compare.set[1]) = wordSize - 1
  /\ compare.set[MaxWord + 1] # {}
  /\ And(old.set[1], compare.set[1]) # {}
  /\ And(old.set[MaxWord + 1], compare.set[MaxWord + 1]) # {}
  /\ Equal(Intersection(result, compare).result, Intersection(old, compare).result)

\* ------------------------------------------------------- concurrent readers
\* Readers call Test on one BitSet and on the ReadOnlyBitSet made from it,
\* each call a sequence of steps that other readers' steps may come between.
\* The words were written before the readers started; nobody writes now.

\* how many readers run
NumReaders == 2

Readers == 1 .. NumReaders

\* indexes the readers test: in the first word, in the second word, beyond
\* every word
TestIdx == {0, wordSize + 6, 4 * wordSize}

\* the words a BitSet can hold after NewBitSet and up to two calls of Set
Storages ==
  LET fresh == {NewBitSet(n) : n \in {0, wordSize}}
  IN  fresh
      \cup {BitSetSet(v, i) : v \in fresh, i \in {0, wordSize + 6}}
      \cup {BitSetSet(BitSetSet(v, 0), wordSize + 6) : v \in fresh}

IdleReader == [pc |-> "idle", kind |-> "BitSet", i |-> 0, idx |-> 0, ret |-> FALSE]

InitReaders ==
  /\ b = ZeroValue
  /\ op = "idle"
  /\ arg = 0
  /\ compare = ZeroValue
  /\ old = ZeroValue
  /\ result = ZeroValue
  /\ ret = NoRet
  /\ ok = TRUE
  /\ operands = {}
  /\ stream = EmptyBuffer
  /\ err = "nil"
  /\ values \in Storages
  /\ data = ReadOnly(values)
  /\ readers = [r \in Readers |-> IdleReader]
  /\ currSet = {}
  /\ visited = << >>

\* what no step of a reader touches, the shared words and bytes apart
callerVars ==
  <<b, op, arg, compare, old, result, ret, ok, operands, err, currSet, visited>>

\* reader r calls Test(i) on the BitSet or on the ReadOnlyBitSet
TestCall ==
  \E r \in Readers, kind \in {"BitSet", "ReadOnlyBitSet"}, i \in TestIdx :
     /\ readers[r].pc = "idle"
     /\ readers' = [readers EXCEPT ![r] = [pc |-> "index", kind |-> kind, i |-> i,
                                            idx |-> 0, ret |-> FALSE]]
     /\ UNCHANGED <<callerVars, stream, values, data>>

\* idx := bitSetIndexOf(i)
TestIndex ==
  \E r \in Readers :
     /\ readers[r].pc = "index"
     /\ readers' = [readers EXCEPT ![r].idx = bitSetIndexOf(readers[r].i),
                                   ![r].pc = "length"]
     /\ UNCHANGED <<callerVars, stream, values, data>>

\* if idx >= len(b.values), or idx >= len(b.data) / 8, return false
TestLength ==
  \E r \in Readers :
     LET n == IF readers[r].kind = "BitSet" THEN Len(values) ELSE Len(data) \div 8
     IN  /\ readers[r].pc = "length"
         /\ readers' = IF readers[r].idx >= n
                       THEN [readers EXCEPT ![r].ret = FALSE, ![r].pc = "done"]
                       ELSE [readers EXCEPT ![r].pc = "load"]
         /\ UNCHANGED <<callerVars, stream, values, data>>

\* return word & (1 << (i & wordMask)) != 0 for the word b.values[idx], or
\* the word that the eight bytes at idx*8 hold
TestLoad ==
  \E r \in Readers :
     LET idx == readers[r].idx
         value == IF readers[r].kind = "BitSet" THEN values[idx + 1]
                  ELSE leUint64(SubSeq(data, idx * 8 + 1, idx * 8 + 8))
     IN  /\ readers[r].pc = "load"
         /\ readers' = [readers EXCEPT ![r].ret = (And(value, bitOf(readers[r].i)) # {}),
                                       ![r].pc = "done"]
         /\ UNCHANGED <<callerVars, stream, values, data>>

\* the caller has the value; the reader is free for its next call
TestReturn ==
  \E r \in Readers :
     /\ readers[r].pc = "done"
     /\ readers' = [readers EXCEPT ![r] = IdleReader]
     /\ UNCHANGED <<callerVars, stream, values, data>>

\* ReadOnlyBitSet.Write(w) on an empty buffer: the bytes go out as they are
ReadOnlyWrite ==
  /\ stream = EmptyBuffer
  /\ Len(data) > 0
  /\ stream' = [stream EXCEPT !.buf = @ \o data]
  /\ UNCHANGED <<callerVars, values, data, readers>>

NextReaders ==
  \/ TestCall
  \/ TestIndex
  \/ TestLength
  \/ TestLoad
  \/ TestReturn
  \/ ReadOnlyWrite

SpecReaders == InitReaders /\ [][NextReaders]_vars

\* whether position i is set in the words, read off the words directly
BitAt(words, i) ==
  /\ (i \div wordSize) < Len(words)
  /\ (i % wordSize) \in words[(i \div wordSize) + 1]

\* C20: with no writer, no step of any interleaving of concurrent Test calls
\* on the BitSet or on the ReadOnlyBitSet, nor Write of the ReadOnlyBitSet,
\* changes the words or the bytes, and every Test call returns what it
\* returns when it runs alone: whether its position is set.
C20_ConcurrentReads ==
  [][/\ values' = values
     /\ data' = data
     /\ \A r \in Readers :
           readers'[r].pc = "done" => (readers'[r].ret = BitAt(values', readers'[r].i))]_vars

\* one reader has its answer from the ReadOnlyBitSet, a set bit of the second
\* word, while another is between the length check and the load on the BitSet
C20_Witness ==
  /\ \E r \in Readers :
        /\ readers[r].pc = "done"
        /\ readers[r].kind = "ReadOnlyBitSet"
        /\ readers[r].i >= wordSize
        /\ readers[r].ret
  /\ \E r \in Readers :
        /\ readers[r].pc = "load"
        /\ readers[r].kind = "BitSet"

\* ------------------------------------------------- length-less BitSet calls
\* The commands of the property test on one BitSet: Set(v), Test(v) and
\* ClearAll(), in any order, with the set of values the test keeps beside it.

\* highest word index that the values given to Set and Test reach
MaxValueWord == 3

\* values given to Set and Test: the first and the last bit of a word
PropValues == {w * wordSize + o : w \in 0 .. MaxValueWord, o \in {0, wordSize - 1}}

\* sizes given to NewBitSet
InitLengths == {0, wordSize - 1, wordSize, 2 * wordSize + 1}

InitBitSet ==
  /\ b = ZeroValue
  /\ op = "NewBitSet"
  /\ arg \in InitLengths
  /\ compare = ZeroValue
  /\ old = ZeroValue
  /\ result = ZeroValue
  /\ ret = NoRet
  /\ ok = TRUE
  /\ operands = {}
  /\ stream = EmptyBuffer
  /\ err = "nil"
  /\ values = NewBitSet(arg)
  /\ data = << >>
  /\ readers = << >>
  /\ currSet = {}
  /\ visited = << >>

\* what no command on the BitSet touches
bitSetFrame == <<b, compare, old, result, ok, operands, stream, err, data, readers, visited>>

\* the Set command: state.set.Set(v), then the next state has v in currSet
BitSetSetAct ==
  \E v \in PropValues :
     /\ values' = BitSetSet(values, v)
     /\ currSet' = currSet \cup {v}
     /\ op' = "Set"
     /\ arg' = v
     /\ ret' = NoRet
     /\ UNCHANGED bitSetFrame

\* the Test command: state.set.Test(v)
BitSetTestAct ==
  \E v \in PropValues :
     /\ ret' = [n |-> 0, found |-> BitSetTest(values, v)]
     /\ op' = "Test"
     /\ arg' = v
     /\ UNCHANGED <<values, currSet>>
     /\ UNCHANGED bitSetFrame

\* the ClearAll command: s.set.ClearAll(), then currSet is emptied
BitSetClearAllAct ==
  /\ values' = BitSetClearAll(values)
  /\ currSet' = {}
  /\ op' = "ClearAll"
  /\ arg' = 0
  /\ ret' = NoRet
  /\ UNCHANGED bitSetFrame

NextBitSet ==
  \/ BitSetSetAct
  \/ BitSetTestAct
  \/ BitSetClearAllAct

SpecBitSet == InitBitSet /\ [][NextBitSet]_vars

\* C21: on the length-less BitSet built by NewBitSet(n), after any sequence of
\* Set, Test and ClearAll, Test(v) is true exactly when v was passed to Set
\* since the last ClearAll or since creation; a Test call leaves the words as
\* they were; right after Set(v), Test(v) is true, also when v lay beyond the
\* words there were; right after ClearAll every word is 0.
C21_BitSetProp ==
  [][/\ \A v \in PropValues :
           /\ BitSetTest(values, v) = (v \in currSet)
           /\ BitSetTest(values', v) = (v \in currSet')
     /\ op' = "Test" => (values' = values /\ ret'.found = (arg' \in currSet'))
     /\ op' = "Set" => BitSetTest(values', arg')
     /\ op' = "ClearAll" => \A k \in 1 .. Len(values') : values'[k] = {}]_vars

\* a Test that finds a value set before the words were reallocated by a Set
\* beyond them, while another value of the same word was never set
C21_Witness ==
  /\ op = "Test"
  /\ ret.found
  /\ arg = wordSize - 1
  /\ 0 \notin currSet
  /\ MaxValueWord * wordSize \in currSet
  /\ Len(values) = 2 * (MaxValueWord + 1)

\* -------------------------------------------------------------------- frame
\* the calls that write one bit
BitOps == {"Set", "Clear", "SetTo", "Flip"}

\* C22: on a vector that satisfies tail cleanliness, Set(i), Clear(i),
\* SetTo(i, x) and Flip(i) return and leave Test(j) as it was at every j # i,
\* also when the call grows the vector or reallocates its words.
C22_BitOpsFrame ==
  (op \in BitOps /\ TailClean(old)) =>
    /\ ok
    /\ \A j \in Pos : j # arg => (Test(b, j) = Test(old, j))

\* Flip(i) beyond the length of a vector with a partial last word and bits
\* set in it, which added a word
C22_Witness ==
  /\ op = "Flip"
  /\ TailClean(old)
  /\ old.length % wordSize # 0
  /\ arg >= old.length
  /\ Len(b.set) > Len(old.set)
  /\ Len(old.set) > 0
  /\ old.set[Len(old.set)] # {}
  /\ \E j \in Pos : j # arg /\ Test(b, j)

\* C23: src.Copy(dst) returns n = min(src.Len(), dst.Len()), 0 when dst is
\* nil; dst.Len() is as before; dst.Test(i) = src.Test(i) at every i < n;
\* dst.Test(p) is as before at every p with n <= p < dst.Len().
C23_CopyFrame ==
  op = "Copy" =>
    IF old = Null THEN ok /\ ret.n = 0
    ELSE LET n == Min2(compare.length, old.length)
         IN  /\ ok
             /\ ret.n = n
             /\ b.length = old.length
             /\ \A i \in Pos : i < n => (Test(b, i) = Test(compare, i))
             /\ \A p \in Pos : (n <= p /\ p < old.length) => (Test(b, p) = Test(old, p))

\* ---------------------------------------------------------------- iteration
\* The loop  for i, e := v.NextSet(0); e; i, e = v.NextSet(i + 1) { ... }
\* on the vector the caller holds: ret is (i, e), visited the values of i the
\* body has run with.

\* i, e := v.NextSet(0)
IterateStart ==
  /\ op = "idle"
  /\ Return("Iterate", 0, ZeroValue, b, ZeroValue, NextSet(b, 0), TRUE)
  /\ visited' = << >>
  /\ UNCHANGED <<stream, err, operands, values, data, readers, currSet>>

\* e holds: the body runs with i, then i, e = v.NextSet(i + 1)
IterateBody ==
  /\ op = "Iterate"
  /\ ret.found
  /\ visited' = Append(visited, ret.n)
  /\ ret' = NextSet(b, ret.n + 1)
  /\ arg' = ret.n + 1
  /\ UNCHANGED <<b, op, compare, old, result, ok, operands, stream, err, values, data,
                 readers, currSet>>

\* e does not hold: the loop is left
IterateEnd ==
  /\ op = "Iterate"
  /\ ~ret.found
  /\ visited' = << >>
  /\ b' = b
  /\ op' = "idle"
  /\ arg' = 0
  /\ old' = ZeroValue
  /\ ret' = NoRet
  /\ UNCHANGED <<compare, result, ok, operands, stream, err, values, data, readers, currSet>>

NextIterate ==
  \/ SetAct
  \/ ClearAct
  \/ ComplementAct
  \/ IterateStart
  \/ IterateBody
  \/ IterateEnd
  \/ (op # "Iterate" /\ Continue)
  \/ UseResult

\* a loop that has started goes on until its condition fails
SpecIterate == Init /\ [][NextIterate]_vars /\ WF_vars(IterateBody)

\* the positions the loop has visited
Visited == {visited[k] : k \in 1 .. Len(visited)}

\* what holds at the loop condition
IterateInv ==
  op = "Iterate" =>
    /\ b = old
    /\ \A k \in 1 .. (Len(visited) - 1) : visited[k] < visited[k + 1]
    /\ Len(visited) <= Count(b)
    /\ ret.found => (Test(b, ret.n) /\ Visited = {p \in TrueBits(b) : p < ret.n})
    /\ ~ret.found => (Visited = TrueBits(b) /\ Len(visited) = Count(b))

\* C24: on a vector that satisfies tail cleanliness, the loop
\* for i, e := v.NextSet(0); e; i, e = v.NextSet(i + 1) ends, after exactly
\* Count() runs of its body; the body runs once with every position where
\* Test is true, in strictly ascending order, and the vector is as it was.
C24_IterationTerminates ==
  /\ [](TailClean(b) /\ IterateInv)
  /\ (op = "Iterate") ~> (op = "Iterate" /\ ~ret.found /\ Len(visited) = Count(b))

\* the loop has ended on a vector of two words with bits set in both and a
\* partial last word
C24_Witness ==
  /\ op = "Iterate"
  /\ ~ret.found
  /\ Len(visited) > 2
  /\ b.length % wordSize # 0
  /\ visited[1] < wordSize
  /\ visited[Len(visited)] >= wordSize
  /\ Len(visited) < b.length

\* C25: for a vector v of any length, 0 and multiples of 64 included,
\* Complement() returns a vector of the length of v that tests true at i < Len()
\* exactly where v tests false and has no stored 1 bit at a position >= Len(),
\* so that its Count() is v.Len() - v.Count(); v is as it was.
C25_Complement ==
  op = "Complement" =>
    /\ ok
    /\ result.length = old.length
    /\ \A i \in Pos : i < old.length => (Test(result, i) = ~Test(old, i))
    /\ \A p \in Pos : Stored(result, p) => p < result.length
    /\ Len(result.set) = CeilWords(result.length)
    /\ Count(result) = old.length - Count(old)
    /\ b = old

\* the complement of a vector of more than one word whose length is no
\* multiple of 64, with bits set and bits clear in its last word
C25_Witness ==
  /\ op = "Complement"
  /\ old.length > wordSize
  /\ old.length % wordSize # 0
  /\ old.set[Len(old.set)] # {}
  /\ result.set[Len(result.set)] # {}
  /\ Count(result) = old.length - Count(old)

\* C26: InsertAt(p) with p <= L on a vector of length L leaves length L + 1,
\* Test(j) as it was at every j < p, Test(p) false, and Test(j + 1) what
\* Test(j) was at every j >= p; Count() is as it was.
C26_InsertAt ==
  (op = "InsertAt" /\ arg <= old.length) =>
    /\ ok
    /\ b.length = old.length + 1
    /\ \A j \in Pos : j < arg => (Test(b, j) = Test(old, j))
    /\ ~Test(b, arg)
    /\ \A j \in Pos : j >= arg => (Test(b, j + 1) = Test(old, j))
    /\ Count(b) = Count(old)

\* an insertion inside the first word of a vector of whole words, with a bit
\* below the position, which carried a bit into the next word and the last
\* bit into a new trailing word
C26_Witness ==
  /\ op = "InsertAt"
  /\ arg = 1
  /\ old.length = (MaxWord + 1) * wordSize
  /\ Test(old, 0)
  /\ Test(old, wordSize - 1)
  /\ Test(old, old.length - 1)
  /\ Len(b.set) = Len(old.set) + 1
  /\ Test(b, wordSize)
  /\ Test(b, old.length)

\* --------------------------------------------------- calls at the top of uint
\* indexes at the top of uint given to Set and Flip: Cap() and Cap() - 1
TopIdx == {Cap, Cap - 1}

\* b.Set(i) with i at the top of uint, as in bmp.Set(Cap())
SetTopAct ==
  \E i \in TopIdx :
     LET r == SetUint(b, i) IN Call("Set", i, ZeroValue, r.b, ZeroValue, NoRet, r.ok)

FlipTopAct ==
  \E i \in TopIdx :
     LET r == FlipUint(b, i) IN Call("Flip", i, ZeroValue, r.b, ZeroValue, NoRet, r.ok)

\* Set and Flip with indexes of both kinds; the caller recovers from a panic
\* and goes on with the vector as the panic left it
NextCap ==
  \/ SetAct
  \/ FlipAct
  \/ ClearAct
  \/ SetTopAct
  \/ FlipTopAct
  \/ RecoverAct
  \/ Continue

SpecCap == Init /\ [][NextCap]_vars

\* C27: Set(i), and Flip(i) with i >= Len(), never fail: for every uint index,
\* Cap() included, for which i + 1 wraps around to 0, the call returns with the
\* vector grown as needed and Test(i) true.
C27_SetNeverFails ==
  (op = "Set" \/ (op = "Flip" /\ (arg < 0 \/ arg >= old.length))) =>
    /\ ok
    /\ TestUint(b, arg)

\* C27 as the code has it: Set(i), and Flip(i) with i >= Len(), return with
\* the length max(L, i + 1) and Test(i) true for the indexes whose words can
\* be allocated; with i = Cap() they panic after the length has become 0 and
\* with the words as they were, and with i = Cap() - 1 they panic and leave
\* the vector as it was.
C27_SetFailsAtCap ==
  (op = "Set" \/ (op = "Flip" /\ (arg < 0 \/ arg >= old.length))) =>
    /\ arg >= 0 => (ok /\ Test(b, arg) /\ b.length = Max2(old.length, arg + 1))
    /\ arg = Cap => (~ok /\ b.length = 0 /\ b.set = old.set /\ ~TestUint(b, arg))
    /\ arg = Cap - 1 => (~ok /\ b = old)

\* Set(Cap()) on a vector with bits set: a panic, the length 0, the words and
\* their bits still there
C27_Witness ==
  /\ op = "Set"
  /\ arg = Cap
  /\ ~ok
  /\ old.length > wordSize
  /\ TrueBits(old) # {}
  /\ b.length = 0
  /\ Len(b.set) = MaxWord + 1
  /\ b.set = old.set

\* the functional operation that an in-place operation does in place
Functional(name) ==
  CASE name = "InPlaceUnion" -> "Union"
    [] name = "InPlaceIntersection" -> "Intersection"
    [] name = "InPlaceDifference" -> "Difference"
    [] name = "InPlaceSymmetricDifference" -> "SymmetricDifference"

\* C28: for a, b that satisfy tail cleanliness, of any lengths, after
\* a.InPlaceUnion(b), a.InPlaceIntersection(b), a.InPlaceDifference(b) and
\* a.InPlaceSymmetricDifference(b), a tests at every index as the vector that
\* a.Union(b), a.Intersection(b), a.Difference(b) and a.SymmetricDifference(b)
\* returned before the call; a satisfies tail cleanliness.
C28_InPlaceRefines ==
  (op \in InPlaceOps /\ TailClean(old) /\ TailClean(compare)) =>
    LET f == callBinary(Functional(op), old, compare)
    IN  /\ ok
        /\ f.ok
        /\ \A i \in Pos : Test(b, i) = Test(f.result, i)
        /\ TailClean(b)

\* InPlaceIntersection of a receiver of more words than the operand, with
\* bits in common and bits set in the words the operand does not have
C28_Witness ==
  /\ op = "InPlaceIntersection"
  /\ ok
  /\ Len(old.set) > Len(compare.set)
  /\ Len(compare.set) > 0
  /\ old.set[Len(old.set)] # {}
  /\ TrueBits(b) # {}
  /\ b.length > Intersection(old, compare).result.length

\* C29: when ReadFrom or UnmarshalJSON returns an error (a stream cut short,
\* a text that is no JSON string, a string that is no base64), the receiver is
\* as it was before the call: the same length, the same words.
C29_ErrorKeepsReceiver ==
  (op \in {"ReadFrom", "UnmarshalJSON"} /\ err # "nil") =>
    /\ b = compare
    /\ op = "ReadFrom" => ret.n = 0

\* ReadFrom on a stream cut inside the words of a two-word vector, into a
\* receiver with bits set that differs from the vector written
C29_Witness ==
  /\ op = "ReadFrom"
  /\ err = "ErrUnexpectedEOF"
  /\ Len(stream.buf) > 8
  /\ Len(old.set) = MaxWord + 1
  /\ TrueBits(compare) # {}
  /\ compare # old
  /\ b = compare

\* C30: a vector that ReadFrom has decoded without an error satisfies tail
\* cleanliness, with ceil(Len()/64) words and no stored 1 bit at a position
\* >= Len(), so that Count() is the number of i < Len() with Test(i) true,
\* also when the last encoded word has bits beyond the declared length.
C30_ReadFromTailClean ==
  (op = "ReadFrom" /\ err = "nil") =>
    /\ TailClean(b)
    /\ Count(b) = Cardinality(TrueBits(b))

====
